---- MODULE Spec2Model ----
(***************************************************************************)
(* Model of UEBBarrel::PredictHit / PredictHitFromLocation / PredictTrace  *)
(* (EasyBallistics, Private/Predict.cpp).                                  *)
(*                                                                         *)
(* Units.  Times (Time, MaxTime, Step, HitTime) are integers counted in    *)
(* ticks of 0.01 s, so Step = 0.1 is 10 and MaxTime = 1.0 is 100.          *)
(* Positions are integer centimetres, velocities centimetres per tick, so  *)
(* a muzzle speed of 100 cm/s is 1.  Every Step of the model is an even    *)
(* number of ticks, which makes Lerp(a, b, 0.5) * Step an integer.  The    *)
(* float32 accumulation of Time += 0.1f crosses 1.0 after ten additions,   *)
(* as the tick arithmetic does.                                            *)
(***************************************************************************)
EXTENDS Integers, Sequences, FiniteSets, TLC

(***************************************************************************)
(* Bound of the model: no run issues more than MaxQueries collision        *)
(* queries.  Runs with Step > 0 need at most 10; the cap only cuts the     *)
(* runs whose loop does not end.                                           *)
(***************************************************************************)
MaxQueries == 12

None == "none"

Firer == "firer"

Wall == "wall"

Crate == "crate"

ZeroVector == <<0, 0, 0>>

VAdd(a, b) == <<a[1] + b[1], a[2] + b[2], a[3] + b[3]>>

VScale(a, k) == <<a[1] * k, a[2] * k, a[3] * k>>

Sign(n) == IF n > 0 THEN 1 ELSE IF n < 0 THEN -1 ELSE 0

(* FVector::GetSafeNormal, for the axis-aligned directions of the model:   *)
(* the unit vector of the same direction, the zero vector for a zero one.  *)
GetSafeNormal(v) == <<Sign(v[1]), Sign(v[2]), Sign(v[3])>>

(* FMath::Lerp(A, B, 0.5) on scalars: A + 0.5 * (B - A). *)
LerpHalf(a, b) == a + (b - a) \div 2

(* FMath::Lerp(PreviousVelocity, Velocity, 0.5f) * Step, kept exact by     *)
(* multiplying before halving.                                             *)
Unscaled_Displacement(prev, vel, step) ==
    << (prev[1] + vel[1]) \div 2, (prev[2] + vel[2]) \div 2, (prev[3] + vel[3]) \div 2 >>

Euler_Displacement(prev, vel, step) == VScale(vel, step)

Displacement(prev, vel, step) ==
    << ((prev[1] + vel[1]) * step) \div 2,
       ((prev[2] + vel[2]) * step) \div 2,
       ((prev[3] + vel[3]) * step) \div 2 >>

(* AEBBullet::UpdateVelocity: the profile's velocity-update rule.          *)
(* "none" is the zero-drag rule; "gravity" takes 0.1 cm/tick off the       *)
(* vertical velocity for every tick of the step.                           *)
UpdateVelocity(bullet, loc, vel, step) ==
    IF bullet.Rule = "gravity"
    THEN <<vel[1], vel[2], vel[3] - step \div 10>>
    ELSE vel

(***************************************************************************)
(* The world seen by UWorld::LineTraceSingleByChannel: blocking planes     *)
(* perpendicular to the x axis.  A plane blocks the channels in Channels;  *)
(* one with ComplexOnly is found by complex traces only.                   *)
(***************************************************************************)
Surface(x, owner, channels, complexOnly) ==
    [X |-> x, Owner |-> owner, Channels |-> channels, ComplexOnly |-> complexOnly]

NoHitResult == [bBlockingHit |-> FALSE, Time |-> <<1, 1>>, Location |-> ZeroVector, Actor |-> None]

Blocking(world, start, end, channel, traceComplex, ignored) ==
    { s \in world :
        /\ channel \in s.Channels
        /\ (s.ComplexOnly => traceComplex)
        /\ s.Owner \notin ignored
        /\ start[1] # end[1]
        /\ \/ start[1] <= s.X /\ s.X <= end[1]
           \/ end[1] <= s.X /\ s.X <= start[1] }

Abs(n) == IF n < 0 THEN -n ELSE n

(* The first blocking plane along the segment.  Time is the hit fraction   *)
(* as <<numerator, denominator>>; Location is the point of the segment on  *)
(* the plane.                                                              *)
LineTraceSingleByChannel(world, start, end, channel, traceComplex, ignored) ==
    LET cand == Blocking(world, start, end, channel, traceComplex, ignored)
    IN  IF cand = {} THEN NoHitResult
        ELSE LET s == CHOOSE c \in cand :
                        \A d \in cand : Abs(c.X - start[1]) <= Abs(d.X - start[1])
                 num == Abs(s.X - start[1])
                 den == Abs(end[1] - start[1])
             IN  [bBlockingHit |-> TRUE,
                  Time |-> <<num, den>>,
                  Location |-> << s.X,
                                  start[2] + ((end[2] - start[2]) * num) \div den,
                                  start[3] + ((end[3] - start[3]) * num) \div den >>,
                  Actor |-> s.Owner]

(* QueryParams of PredictTrace: the caller's ignored actors, plus the      *)
(* barrel's owner when the bullet has SafeLaunch.                          *)
OwnerOnly_QueryIgnored(bullet, owner, ignored) ==
    IF bullet.SafeLaunch THEN {owner} ELSE {}

QueryIgnored(bullet, owner, ignored) ==
    ignored \cup (IF bullet.SafeLaunch THEN {owner} ELSE {})

PredictTrace(world, bullet, start, end, ignored) ==
    LineTraceSingleByChannel(world, start, end, bullet.TraceChannel,
                             bullet.TraceComplex, QueryIgnored(bullet, Firer, ignored))

(* HitTime = Time + (HitResult.Time * Step); a product that is not a whole  *)
(* number of ticks is rounded down to one.                                 *)
FractionOnly_ComputeHitTime(time, frac, step) == (frac[1] * step) \div frac[2]

ComputeHitTime(time, frac, step) == time + (frac[1] * step) \div frac[2]

(* Time += Step *)
HalfStep_AdvanceTime(time, step) == time + step \div 2

AdvanceTime(time, step) == time + step

(* while (Time < MaxTime) *)
Inclusive_LoopCondition(time, maxTime) == time <= maxTime

LoopCondition(time, maxTime) == time < maxTime

(* Trajectory = TArray<FVector>() *)
Keep_ResetTrajectory(old) == old

ResetTrajectory(old) == << >>

(* Trajectory.Add(HitResult.Location) *)
NoAppend_RecordHit(trajectory, location) == trajectory

RecordHit(trajectory, location) == Append(trajectory, location)

(* Trajectory.Add(CurrentLocation), before the move of line 48. *)
PostMove_RecordSample(trajectory, current, next) == Append(trajectory, next)

RecordSample(trajectory, current, next) == Append(trajectory, current)

(* return; after a hit (line 44): the call is over. *)
Continue_AfterHit == "loop"

AfterHit == "done"

(* Velocity at launch: lines 23-33. *)
AnyParent_InitialVelocity(barrel, bullet, aim, loc) ==
    LET muzzle == LerpHalf(barrel.MuzzleVelocityMultiplierMin, barrel.MuzzleVelocityMultiplierMax)
                  * LerpHalf(bullet.MuzzleVelocityMin, bullet.MuzzleVelocityMax)
        base == VAdd(VScale(GetSafeNormal(aim), muzzle), barrel.AdditionalVelocity)
    IN  IF barrel.Parent.Primitive
        THEN VAdd(base, VScale(barrel.Parent.Velocity, barrel.InheritVelocity))
        ELSE base

InitialVelocity(barrel, bullet, aim, loc) ==
    LET muzzle == LerpHalf(barrel.MuzzleVelocityMultiplierMin, barrel.MuzzleVelocityMultiplierMax)
                  * LerpHalf(bullet.MuzzleVelocityMin, bullet.MuzzleVelocityMax)
        base == VAdd(VScale(GetSafeNormal(aim), muzzle), barrel.AdditionalVelocity)
    IN  IF barrel.Parent.Primitive /\ barrel.Parent.Simulating
        THEN VAdd(base, VScale(barrel.Parent.Velocity, barrel.InheritVelocity))
        ELSE base

(***************************************************************************)
(* Inputs of the model.                                                    *)
(***************************************************************************)
Profile(vmin, vmax, safe, complex, channel, rule) ==
    [MuzzleVelocityMin |-> vmin, MuzzleVelocityMax |-> vmax, SafeLaunch |-> safe,
     TraceComplex |-> complex, TraceChannel |-> channel, Rule |-> rule]

ZeroDragProfile == Profile(1, 1, TRUE, FALSE, "Visibility", "none")

Profiles ==
    { ZeroDragProfile,
      Profile(0, 2, FALSE, TRUE, "Camera", "none"),
      Profile(1, 1, TRUE, FALSE, "Visibility", "gravity") }

(* Cast<UPrimitiveComponent>(GetAttachParent()): Primitive is FALSE when    *)
(* the cast yields nullptr.                                                *)
AttachParent(primitive, simulating, velocity) ==
    [Primitive |-> primitive, Simulating |-> simulating, Velocity |-> velocity]

DefaultBarrel ==
    [MuzzleVelocityMultiplierMin |-> 1, MuzzleVelocityMultiplierMax |-> 1,
     AdditionalVelocity |-> ZeroVector, InheritVelocity |-> 1,
     Parent |-> AttachParent(FALSE, FALSE, ZeroVector)]

Barrels ==
    { DefaultBarrel,
      [DefaultBarrel EXCEPT !.MuzzleVelocityMultiplierMax = 3,
                            !.Parent = AttachParent(TRUE, FALSE, <<1, 0, 0>>)],
      [DefaultBarrel EXCEPT !.AdditionalVelocity = <<0, 0, 2>>,
                            !.InheritVelocity = 2,
                            !.Parent = AttachParent(TRUE, TRUE, <<1, 0, 0>>)] }

AllChannels == {"Visibility", "Camera"}

EmptyWorld == {}

WallAt55 == { Surface(55, Wall, AllChannels, FALSE) }

Worlds ==
    { EmptyWorld,
      WallAt55,
      { Surface(0, Firer, AllChannels, FALSE), Surface(55, Crate, {"Camera"}, FALSE),
        Surface(110, Wall, AllChannels, FALSE) },
      { Surface(20, Crate, AllChannels, TRUE), Surface(95, Wall, AllChannels, FALSE) } }

Starts == { ZeroVector, <<5, 0, 10>> }

AimDirections == { <<1, 0, 0>>, <<-2, 0, 0>>, ZeroVector }

IgnoreSets == { {}, {Wall} }

MaxTimes == { 0, 50, 100 }

Steps == { -10, 0, 10, 30 }

DefaultOutputs ==
    [Hit |-> FALSE, HitResult |-> NoHitResult, HitLocation |-> ZeroVector,
     HitTime |-> 0, HitActor |-> None, Trajectory |-> << >>]

StaleOutputs ==
    [Hit |-> TRUE, HitResult |-> NoHitResult, HitLocation |-> <<9, 9, 9>>,
     HitTime |-> 7, HitActor |-> Crate, Trajectory |-> << <<9, 9, 9>> >>]

(* Values of the variables a specification does not use. *)
IdleSolver == [pc |-> "idle", round |-> 0, NumIterations |-> 0, runs |-> 0]

IdleFrames == << >>

IdleTool == [pc |-> "idle"]

VARIABLES
    pc,               \* "entry", "loop", "done": position in PredictHitFromLocation
    call,             \* 1 or 2: which of the caller's two calls is running
    BulletClass,      \* [Valid, CDO]: the TSubclassOf and its default object
    barrel,           \* the UEBBarrel fields read by the prediction
    World,            \* the surfaces of GetWorld()
    StartLocation, AimDirection, IgnoredActors, MaxTime, Step,
    Hit, HitResult, HitLocation, HitTime, HitActor, Trajectory,   \* out parameters
    Time, CurrentLocation, Velocity,                              \* locals
    queries,          \* collision queries issued by the running call
    steps,            \* iterations of the running call that ended without a hit
    entry,            \* the out parameters as the running call found them
    first,            \* the out parameters as the first call left them
    traces,           \* the collision queries of the running call, in order
    solver,           \* a run of CalculateAimDirectionFromLocation
    frames,           \* two invocations of PredictHitFromLocation in progress
    tool              \* the UAttributeEditorTool and its target mesh

inputs == <<BulletClass, barrel, World, StartLocation, AimDirection, IgnoredActors, MaxTime, Step>>

outputs == <<Hit, HitResult, HitLocation, HitTime, HitActor, Trajectory>>

locals == <<Time, CurrentLocation, Velocity>>

others == <<solver, frames, tool>>

vars == <<pc, call, inputs, outputs, locals, queries, steps, entry, first, traces, others>>

Outputs ==
    [Hit |-> Hit, HitResult |-> HitResult, HitLocation |-> HitLocation,
     HitTime |-> HitTime, HitActor |-> HitActor, Trajectory |-> Trajectory]

Bullet == BulletClass.CDO

Init ==
    /\ pc = "entry"
    /\ call = 1
    /\ BulletClass \in [Valid : BOOLEAN, CDO : Profiles]
    /\ barrel \in Barrels
    /\ World \in Worlds
    /\ StartLocation \in Starts
    /\ AimDirection \in AimDirections
    /\ IgnoredActors \in IgnoreSets
    /\ MaxTime \in MaxTimes
    /\ Step \in Steps
    /\ \E o \in {DefaultOutputs, StaleOutputs} :
          /\ Hit = o.Hit
          /\ HitResult = o.HitResult
          /\ HitLocation = o.HitLocation
          /\ HitTime = o.HitTime
          /\ HitActor = o.HitActor
          /\ Trajectory = o.Trajectory
          /\ entry = o
    /\ Time = 0
    /\ CurrentLocation = ZeroVector
    /\ Velocity = ZeroVector
    /\ queries = 0
    /\ steps = 0
    /\ first = DefaultOutputs
    /\ traces = << >>
    /\ solver = IdleSolver
    /\ frames = IdleFrames
    /\ tool = IdleTool

(* Lines 13-16: invalid bullet class, warning and return. *)
RejectInvalidClass ==
    /\ pc = "entry"
    /\ ~BulletClass.Valid
    /\ pc' = "done"
    /\ UNCHANGED <<call, inputs, outputs, locals, queries, steps, entry, first, traces, others>>

(* Lines 18-33: locals and launch velocity. *)
Begin ==
    /\ pc = "entry"
    /\ BulletClass.Valid
    /\ Time' = 0
    /\ Trajectory' = ResetTrajectory(Trajectory)
    /\ CurrentLocation' = StartLocation
    /\ Velocity' = InitialVelocity(barrel, Bullet, AimDirection, StartLocation)
    /\ pc' = "loop"
    /\ UNCHANGED <<call, inputs, Hit, HitResult, HitLocation, HitTime, HitActor,
                   queries, steps, entry, first, traces, others>>

NextVelocity == UpdateVelocity(Bullet, CurrentLocation, Velocity, Step)

StepEnd == VAdd(CurrentLocation, Displacement(Velocity, NextVelocity, Step))

StepTrace == PredictTrace(World, Bullet, CurrentLocation, StepEnd, IgnoredActors)

(* CurrentLocation += FMath::Lerp(PreviousVelocity, Velocity, 0.5f)*Step *)
NextLocation == VAdd(CurrentLocation, Displacement(Velocity, NextVelocity, Step))

(* The arguments PredictTrace hands to LineTraceSingleByChannel. *)
StepQuery ==
    [Start |-> CurrentLocation, End |-> StepEnd, Channel |-> Bullet.TraceChannel,
     TraceComplex |-> Bullet.TraceComplex,
     Ignored |-> QueryIgnored(Bullet, Firer, IgnoredActors)]

(* Lines 35-45: one iteration whose collision query reports a hit. *)
StepHit ==
    /\ pc = "loop"
    /\ LoopCondition(Time, MaxTime)
    /\ queries < MaxQueries
    /\ StepTrace.bBlockingHit
    /\ Velocity' = NextVelocity
    /\ HitResult' = StepTrace
    /\ Hit' = TRUE
    /\ Trajectory' = RecordHit(Trajectory, StepTrace.Location)
    /\ HitTime' = ComputeHitTime(Time, StepTrace.Time, Step)
    /\ HitActor' = StepTrace.Actor
    /\ HitLocation' = StepTrace.Location
    /\ queries' = queries + 1
    /\ traces' = Append(traces, StepQuery)
    /\ pc' = AfterHit
    /\ UNCHANGED <<call, inputs, Time, CurrentLocation, steps, entry, first, others>>

(* Lines 35-38 and 46-50: one iteration whose collision query reports no hit. *)
StepMiss ==
    /\ pc = "loop"
    /\ LoopCondition(Time, MaxTime)
    /\ queries < MaxQueries
    /\ ~StepTrace.bBlockingHit
    /\ Velocity' = NextVelocity
    /\ HitResult' = StepTrace
    /\ Hit' = FALSE
    /\ Trajectory' = RecordSample(Trajectory, CurrentLocation, NextLocation)
    /\ CurrentLocation' = NextLocation
    /\ Time' = AdvanceTime(Time, Step)
    /\ queries' = queries + 1
    /\ steps' = steps + 1
    /\ traces' = Append(traces, StepQuery)
    /\ UNCHANGED <<pc, call, inputs, HitLocation, HitTime, HitActor, entry, first, others>>

(* Lines 53-56: the loop ended without a hit. *)
Finish ==
    /\ pc = "loop"
    /\ ~LoopCondition(Time, MaxTime)
    /\ Hit' = FALSE
    /\ HitTime' = MaxTime
    /\ HitLocation' = CurrentLocation
    /\ HitActor' = None
    /\ pc' = "done"
    /\ UNCHANGED <<call, inputs, HitResult, Trajectory, locals, queries, steps, entry, first,
                   traces, others>>

(* The caller calls again with the same arguments and the same variables   *)
(* behind the out parameters.                                              *)
CallAgain ==
    /\ pc = "done"
    /\ call = 1
    /\ call' = 2
    /\ first' = Outputs
    /\ entry' = Outputs
    /\ queries' = 0
    /\ steps' = 0
    /\ traces' = << >>
    /\ pc' = "entry"
    /\ UNCHANGED <<inputs, outputs, locals, others>>

Next ==
    \/ RejectInvalidClass
    \/ Begin
    \/ StepHit
    \/ StepMiss
    \/ Finish
    \/ CallAgain

Spec == Init /\ [][Next]_vars

(***************************************************************************)
(* The zero-drag scenario: muzzle speed 100 cm/s from the origin along +x, *)
(* no additional or inherited velocity, Step = 0.1 s, MaxTime = 1.0 s.     *)
(***************************************************************************)
ZeroDragScenario ==
    /\ BulletClass.Valid
    /\ Bullet = ZeroDragProfile
    /\ barrel = DefaultBarrel
    /\ StartLocation = ZeroVector
    /\ AimDirection = <<1, 0, 0>>
    /\ Step = 10
    /\ MaxTime = 100

(* C1: with a valid bullet class and Step <= 0 the prediction takes no     *)
(* integration step and issues no collision query, and what it returns is  *)
(* a Miss with an empty Trajectory.                                        *)
C1_NonPositiveStepReturnsAtOnce ==
    (BulletClass.Valid /\ Step <= 0)
        => /\ queries = 0
           /\ steps = 0
           /\ (pc = "done" => ~Hit /\ Trajectory = << >>)

(* C2: a returned Hit with Step > 0 and MaxTime > 0 has HitTime in         *)
(* [0, MaxTime], equal to stepIndex * Step + fraction * Step for the       *)
(* 0-based index of the hitting query and its fraction in [0, 1].          *)
C2_HitTimeWithinMaxTime ==
    (pc = "done" /\ BulletClass.Valid /\ Hit /\ Step > 0 /\ MaxTime > 0)
        => /\ 0 <= HitTime
           /\ HitTime <= MaxTime
           /\ 0 <= HitResult.Time[1]
           /\ HitResult.Time[1] <= HitResult.Time[2]
           /\ HitTime = (queries - 1) * Step + (HitResult.Time[1] * Step) \div HitResult.Time[2]

(* C3: a call with an invalid bullet class issues no query, takes no step  *)
(* and returns with Hit false and Trajectory empty, whatever the out       *)
(* parameters held before.                                                 *)
C3_InvalidClassLeavesDefaults ==
    (pc = "done" /\ ~BulletClass.Valid)
        => /\ queries = 0
           /\ steps = 0
           /\ ~Hit
           /\ Trajectory = << >>

(* C4: a Miss with Step > 0 and MaxTime > 0 has ceil(MaxTime / Step)       *)
(* samples, and the elapsed time at loop exit and the reported HitTime     *)
(* are both MaxTime.                                                       *)
C4_MissAtMaxTime ==
    (pc = "done" /\ BulletClass.Valid /\ ~Hit /\ Step > 0 /\ MaxTime > 0)
        => /\ Len(Trajectory) = (MaxTime + Step - 1) \div Step
           /\ Time = MaxTime
           /\ HitTime = MaxTime

(* C5: with a valid bullet class and MaxTime = 0 the prediction issues no  *)
(* query and returns Miss at the start position with HitTime 0, no actor   *)
(* and an empty Trajectory, whatever the Trajectory held at entry.         *)
C5_ZeroMaxTimeIsImmediateMiss ==
    (BulletClass.Valid /\ MaxTime = 0)
        => /\ queries = 0
           /\ (pc = "done" => /\ ~Hit
                              /\ HitLocation = StartLocation
                              /\ HitTime = 0
                              /\ HitActor = None
                              /\ Trajectory = << >>)

C5_Witness ==
    /\ pc = "done"
    /\ BulletClass.Valid
    /\ MaxTime = 0
    /\ entry.Trajectory # << >>
    /\ Trajectory = << >>

C8_SecondCallSameResult ==
    (call = 2 /\ pc = "done")
        => /\ Hit = first.Hit
           /\ HitLocation = first.HitLocation
           /\ HitTime = first.HitTime
           /\ HitActor = first.HitActor
           /\ Trajectory = first.Trajectory

C8_Witness ==
    /\ call = 2
    /\ pc = "done"
    /\ BulletClass.Valid
    /\ Hit
    /\ Len(Trajectory) >= 2
    /\ entry.Trajectory = Trajectory

(* C9: the zero-drag scenario without obstacles is a Miss at (100, 0, 0)   *)
(* and time 1.0 with exactly 10 samples, at x = 0, 10, ..., 90.            *)
C9_ZeroDragMiss ==
    (ZeroDragScenario /\ World = EmptyWorld /\ pc = "done")
        => /\ ~Hit
           /\ HitLocation = <<100, 0, 0>>
           /\ HitTime = 100
           /\ Trajectory = [k \in 1..10 |-> <<10 * (k - 1), 0, 0>>]

C9_Witness ==
    /\ ZeroDragScenario
    /\ World = EmptyWorld
    /\ pc = "done"
    /\ Len(Trajectory) = 10

(* C10: the zero-drag scenario with a blocking surface at x = 55 is a Hit  *)
(* at (55, 0, 0) with HitTime 0.55, step index 5 and fraction 0.5, on the  *)
(* sixth collision query, and HitActor is the surface's owner.             *)
C10_ObstacleHit ==
    (ZeroDragScenario /\ World = WallAt55 /\ IgnoredActors = {} /\ pc = "done")
        => /\ Hit
           /\ HitLocation = <<55, 0, 0>>
           /\ HitTime = 55
           /\ HitTime = 5 * Step + Step \div 2
           /\ HitResult.Time = <<5, 10>>
           /\ HitActor = Wall
           /\ queries = 6

C10_Witness ==
    /\ ZeroDragScenario
    /\ World = WallAt55
    /\ IgnoredActors = {}
    /\ pc = "done"
    /\ Hit

(* C14: every step queries the segment from the current position to the   *)
(* current position plus (oldVelocity + newVelocity) / 2 * Step, with       *)
(* newVelocity the update rule applied to the old one; without a hit the    *)
(* position advances by that displacement, so each queried segment starts   *)
(* where the one before it ended.                                           *)
C14_TrapezoidSegmentsJoin ==
    [][ (BulletClass.Valid /\ pc = "loop" /\ queries' = queries + 1)
          => LET q == traces'[Len(traces')]
                 disp == << ((Velocity[1] + Velocity'[1]) * Step) \div 2,
                            ((Velocity[2] + Velocity'[2]) * Step) \div 2,
                            ((Velocity[3] + Velocity'[3]) * Step) \div 2 >>
             IN  /\ Velocity' = UpdateVelocity(Bullet, CurrentLocation, Velocity, Step)
                 /\ q.Start = CurrentLocation
                 /\ q.End = VAdd(CurrentLocation, disp)
                 /\ (~Hit' => CurrentLocation' = q.End)
                 /\ (queries > 0 => q.Start = traces[Len(traces)].End) ]_vars

C14_Witness ==
    /\ BulletClass.Valid
    /\ Bullet.Rule = "gravity"
    /\ Step > 0
    /\ Len(traces) >= 3
    /\ traces[3].Start = traces[2].End
    /\ traces[3].Start[3] # traces[2].Start[3]
    /\ CurrentLocation = traces[3].End

(* C15: the first query that reports a hit ends the call: its location is  *)
(* appended last and is the HitLocation, HitActor is the actor it reports,  *)
(* all earlier queries were misses, and nothing is queried or updated       *)
(* afterwards.                                                              *)
C15_FirstHitEndsPrediction ==
    /\ [][ (BulletClass.Valid /\ queries' = queries + 1 /\ Hit')
             => /\ pc' = "done"
                /\ HitResult'.bBlockingHit
                /\ Trajectory' = Append(Trajectory, HitResult'.Location)
                /\ HitLocation' = HitResult'.Location
                /\ HitActor' = HitResult'.Actor
                /\ queries = steps ]_vars
    /\ [][ (pc = "done" /\ call' = call)
             => (queries' = queries /\ Velocity' = Velocity /\ traces' = traces) ]_vars

C15_Witness ==
    /\ pc = "done"
    /\ BulletClass.Valid
    /\ Hit
    /\ steps = 5
    /\ queries = 6
    /\ Trajectory[Len(Trajectory)] = HitLocation
    /\ HitActor = HitResult.Actor

(* C16 as claimed: sample 0 is the start, sample k+1 is sample k plus the   *)
(* displacement of step k, and on a Miss the final position is no element   *)
(* of the Trajectory.                                                       *)
C16_FinalPositionNotASample ==
    (BulletClass.Valid /\ pc \in {"loop", "done"} /\ steps >= 1)
        => /\ Trajectory[1] = StartLocation
           /\ \A k \in 1..(steps - 1) :
                 Trajectory[k + 1]
                    = VAdd(Trajectory[k], VAdd(traces[k].End, VScale(traces[k].Start, -1)))
           /\ (pc = "done" /\ ~Hit
                 => /\ HitLocation
                         = VAdd(Trajectory[steps],
                                VAdd(traces[steps].End, VScale(traces[steps].Start, -1)))
                    /\ \A k \in 1..Len(Trajectory) : Trajectory[k] # HitLocation)

(* C16 as amended: sample 0 is the start, sample k+1 is sample k plus the   *)
(* displacement of step k; on a Miss the final position is the last sample  *)
(* plus the last displacement and is not appended, so it differs from the   *)
(* last sample whenever that displacement is not zero.                      *)
C16_SamplesArePreMove ==
    (BulletClass.Valid /\ pc \in {"loop", "done"} /\ steps >= 1)
        => /\ Trajectory[1] = StartLocation
           /\ \A k \in 1..(steps - 1) :
                 Trajectory[k + 1]
                    = VAdd(Trajectory[k], VAdd(traces[k].End, VScale(traces[k].Start, -1)))
           /\ (pc = "done" /\ ~Hit
                 => /\ Len(Trajectory) = steps
                    /\ HitLocation
                         = VAdd(Trajectory[steps],
                                VAdd(traces[steps].End, VScale(traces[steps].Start, -1)))
                    /\ (traces[steps].End # traces[steps].Start
                          => HitLocation # Trajectory[steps]))

C16_Witness ==
    /\ pc = "done"
    /\ BulletClass.Valid
    /\ ~Hit
    /\ steps >= 2
    /\ Len(Trajectory) = steps
    /\ \A k \in 1..Len(Trajectory) : Trajectory[k] # HitLocation

C18_QueriesHonourIgnoreSet ==
    BulletClass.Valid
        => /\ \A k \in 1..Len(traces) :
                 /\ traces[k].Ignored
                       = IgnoredActors \cup (IF Bullet.SafeLaunch THEN {Firer} ELSE {})
                 /\ traces[k].Channel = Bullet.TraceChannel
                 /\ traces[k].TraceComplex = Bullet.TraceComplex
           /\ (pc = "done" /\ Hit
                 => /\ HitActor \notin IgnoredActors
                    /\ (Bullet.SafeLaunch => HitActor # Firer))

(* The firer is returned as HitActor when SafeLaunch is clear. *)
C18_Witness ==
    /\ pc = "done"
    /\ BulletClass.Valid
    /\ Hit
    /\ HitActor = Firer
    /\ ~Bullet.SafeLaunch
    /\ Firer \notin IgnoredActors
    /\ Len(traces) = 1

(***************************************************************************)
(* Two invocations of PredictHitFromLocation on the same barrel, bullet    *)
(* class and world, each with its own arguments, out parameters and        *)
(* locals, interleaved at the boundaries of their steps.                   *)
(***************************************************************************)
ConcWorlds == {EmptyWorld, WallAt55}

ConcAims == {<<1, 0, 0>>, <<-2, 0, 0>>}

ConcSteps == {10, 30}

(* The frame of one invocation at its entry: arguments, the caller's out   *)
(* parameters, and the locals not yet assigned.                            *)
Frame(start, aim, ignored, maxTime, step, o) ==
    [pc |-> "entry",
     StartLocation |-> start, AimDirection |-> aim, IgnoredActors |-> ignored,
     MaxTime |-> maxTime, Step |-> step,
     Hit |-> o.Hit, HitResult |-> o.HitResult, HitLocation |-> o.HitLocation,
     HitTime |-> o.HitTime, HitActor |-> o.HitActor, Trajectory |-> o.Trajectory,
     Time |-> 0, CurrentLocation |-> ZeroVector, Velocity |-> ZeroVector,
     queries |-> 0, entry |-> o]

FrameEntry(f) ==
    Frame(f.StartLocation, f.AimDirection, f.IgnoredActors, f.MaxTime, f.Step, f.entry)

FrameOutputs(f) ==
    [Hit |-> f.Hit, HitResult |-> f.HitResult, HitLocation |-> f.HitLocation,
     HitTime |-> f.HitTime, HitActor |-> f.HitActor, Trajectory |-> f.Trajectory]

(* Lines 18-33 in a frame. *)
FrameBegin(f, b, cls) ==
    [f EXCEPT !.pc = "loop",
              !.Time = 0,
              !.Trajectory = ResetTrajectory(f.Trajectory),
              !.CurrentLocation = f.StartLocation,
              !.Velocity = InitialVelocity(b, cls.CDO, f.AimDirection, f.StartLocation)]

(* Lines 35-51 in a frame: one iteration of the loop. *)
FrameIterate(f, cls, w) ==
    LET nv == UpdateVelocity(cls.CDO, f.CurrentLocation, f.Velocity, f.Step)
        end == VAdd(f.CurrentLocation, Displacement(f.Velocity, nv, f.Step))
        tr == PredictTrace(w, cls.CDO, f.CurrentLocation, end, f.IgnoredActors)
    IN  IF tr.bBlockingHit
        THEN [f EXCEPT !.Velocity = nv,
                       !.HitResult = tr,
                       !.Hit = TRUE,
                       !.Trajectory = RecordHit(f.Trajectory, tr.Location),
                       !.HitTime = ComputeHitTime(f.Time, tr.Time, f.Step),
                       !.HitActor = tr.Actor,
                       !.HitLocation = tr.Location,
                       !.queries = f.queries + 1,
                       !.pc = AfterHit]
        ELSE [f EXCEPT !.Velocity = nv,
                       !.HitResult = tr,
                       !.Hit = FALSE,
                       !.Trajectory = RecordSample(f.Trajectory, f.CurrentLocation, end),
                       !.CurrentLocation = end,
                       !.Time = AdvanceTime(f.Time, f.Step),
                       !.queries = f.queries + 1]

(* Lines 53-56 in a frame. *)
FrameFinish(f) ==
    [f EXCEPT !.Hit = FALSE,
              !.HitTime = f.MaxTime,
              !.HitLocation = f.CurrentLocation,
              !.HitActor = None,
              !.pc = "done"]

(* One step of PredictHitFromLocation on a frame. *)
FrameStep(f, b, cls, w) ==
    IF f.pc = "entry"
    THEN IF cls.Valid THEN FrameBegin(f, b, cls) ELSE [f EXCEPT !.pc = "done"]
    ELSE IF f.pc = "loop"
         THEN IF LoopCondition(f.Time, f.MaxTime)
              THEN FrameIterate(f, cls, w)
              ELSE FrameFinish(f)
         ELSE f

(* The invocation run from a frame to its return with nothing in between. *)
RECURSIVE RunToEnd(_, _, _, _)
RunToEnd(f, b, cls, w) ==
    IF f.pc = "done" THEN f ELSE RunToEnd(FrameStep(f, b, cls, w), b, cls, w)

(* The barrel after a step of an invocation: both prediction methods are   *)
(* const and assign no member.                                             *)
Scratch_ThisAfterStep(b, f) == [b EXCEPT !.AdditionalVelocity = f.Velocity]

ThisAfterStep(b, f) == b

ConcInit ==
    /\ pc = "idle"
    /\ call = 1
    /\ BulletClass \in [Valid : BOOLEAN, CDO : Profiles]
    /\ barrel \in Barrels
    /\ World \in ConcWorlds
    /\ StartLocation = ZeroVector
    /\ AimDirection = ZeroVector
    /\ IgnoredActors = {}
    /\ MaxTime = 0
    /\ Step = 0
    /\ Hit = FALSE
    /\ HitResult = NoHitResult
    /\ HitLocation = ZeroVector
    /\ HitTime = 0
    /\ HitActor = None
    /\ Trajectory = << >>
    /\ Time = 0
    /\ CurrentLocation = ZeroVector
    /\ Velocity = ZeroVector
    /\ queries = 0
    /\ steps = 0
    /\ entry = DefaultOutputs
    /\ first = DefaultOutputs
    /\ traces = << >>
    /\ solver = IdleSolver
    /\ tool = IdleTool
    /\ \E s1, s2 \in Starts, a1, a2 \in ConcAims, i1, i2 \in IgnoreSets, t1, t2 \in ConcSteps :
          frames = << Frame(s1, a1, i1, 50, t1, DefaultOutputs),
                      Frame(s2, a2, i2, 50, t2, StaleOutputs) >>

(* The scheduler lets invocation i take its next step. *)
ConcStep(i) ==
    /\ frames[i].pc # "done"
    /\ frames' = [frames EXCEPT ![i] = FrameStep(frames[i], barrel, BulletClass, World)]
    /\ barrel' = ThisAfterStep(barrel, frames'[i])
    /\ UNCHANGED <<pc, call, BulletClass, World, StartLocation, AimDirection, IgnoredActors,
                   MaxTime, Step, outputs, locals, queries, steps, entry, first, traces,
                   solver, tool>>

ConcNext == \E i \in 1..2 : ConcStep(i)

ConcSpec == ConcInit /\ [][ConcNext]_vars

(* C13: two interleaved invocations write no field of the barrel or of the *)
(* bullet profile, and from every point of the interleaving each one ends  *)
(* with the out parameters it produces when run alone from its entry.      *)
C13_InterleavedRunsAreIndependent ==
    /\ [][barrel' = barrel /\ BulletClass' = BulletClass]_vars
    /\ [](\A i \in DOMAIN frames :
             FrameOutputs(RunToEnd(frames[i], barrel, BulletClass, World))
                = FrameOutputs(RunToEnd(FrameEntry(frames[i]), barrel, BulletClass, World)))

C13_Witness ==
    /\ Len(frames) = 2
    /\ BulletClass.Valid
    /\ frames[1].pc = "loop"
    /\ frames[2].pc = "loop"
    /\ frames[1].queries >= 2
    /\ frames[2].queries >= 2
    /\ frames[1].AimDirection # frames[2].AimDirection
    /\ frames[1].Trajectory # frames[2].Trajectory

(***************************************************************************)
(* The Aim Solver, CalculateAimDirectionFromLocation.  Its body is not in  *)
(* the sources at hand; the steps below follow section 4.2 of the          *)
(* specification.  Start, target and target velocity lie on the x axis.    *)
(* The error is kept as the squared distance, which orders as the distance *)
(* does.                                                                   *)
(***************************************************************************)
VSub(a, b) == <<a[1] - b[1], a[2] - b[2], a[3] - b[3]>>

DistSquared(a, b) ==
    (a[1] - b[1]) * (a[1] - b[1]) + (a[2] - b[2]) * (a[2] - b[2])
        + (a[3] - b[3]) * (a[3] - b[3])

(* Nominal muzzle speed: the midpoint of the range, as the integrator      *)
(* samples it.                                                             *)
NominalMuzzleSpeed(b, bullet) ==
    LerpHalf(b.MuzzleVelocityMultiplierMin, b.MuzzleVelocityMultiplierMax)
        * LerpHalf(bullet.MuzzleVelocityMin, bullet.MuzzleVelocityMax)

(* Step 1: seed flight time = distance(start, target) / muzzle speed. *)
SeedTime(start, target, speed) == Abs(target[1] - start[1]) \div speed

(* Steps 1 and 2c: predicted target = target + targetVelocity * T. *)
PredictTarget(target, targetVelocity, t) == VAdd(target, VScale(targetVelocity, t))

(* Steps 1 and 2d: aim = normalize(predicted target - start). *)
FromIntersection_RefineAim(start, predicted, intersection) ==
    GetSafeNormal(VSub(predicted, intersection))

RefineAim(start, predicted, intersection) == GetSafeNormal(VSub(predicted, start))

(* Step 2: the loop runs while rounds remain in the budget. *)
Inclusive_RoundsLeft(round, iterations) == round <= iterations

RoundsLeft(round, iterations) == round < iterations

(* Steps 2a and 3: one run of the Trajectory Integrator from the start     *)
(* position with the current aim direction.                                *)
SolverPredict(s, b, cls, w) ==
    RunToEnd(Frame(s.StartLocation, s.AimDirection, {}, s.MaxTime, s.Step, DefaultOutputs),
             b, cls, w)

SolverTargets == {<<20, 0, 0>>, <<100, 0, 0>>, <<-40, 0, 0>>}

SolverTargetVelocities == {ZeroVector, <<1, 0, 0>>, <<-1, 0, 0>>}

SolverIterations == {0, 1, 2, 4}

SolverMaxTimes == {50, 100}

SolverInit ==
    /\ pc = "idle"
    /\ call = 1
    /\ BulletClass \in [Valid : {TRUE}, CDO : Profiles]
    /\ barrel \in Barrels
    /\ World \in ConcWorlds
    /\ StartLocation = ZeroVector
    /\ AimDirection = ZeroVector
    /\ IgnoredActors = {}
    /\ MaxTime = 0
    /\ Step = 0
    /\ Hit = FALSE
    /\ HitResult = NoHitResult
    /\ HitLocation = ZeroVector
    /\ HitTime = 0
    /\ HitActor = None
    /\ Trajectory = << >>
    /\ Time = 0
    /\ CurrentLocation = ZeroVector
    /\ Velocity = ZeroVector
    /\ queries = 0
    /\ steps = 0
    /\ entry = DefaultOutputs
    /\ first = DefaultOutputs
    /\ traces = << >>
    /\ frames = IdleFrames
    /\ tool = IdleTool
    /\ solver = IdleSolver

(* A caller enters CalculateAimDirectionFromLocation with its arguments. *)
SolverCall ==
    /\ solver.pc = "idle"
    /\ \E target \in SolverTargets, tv \in SolverTargetVelocities,
          n \in SolverIterations, mt \in SolverMaxTimes, st \in ConcSteps :
          solver' = [pc |-> "seed", round |-> 0, NumIterations |-> n,
                     StartLocation |-> ZeroVector, TargetLocation |-> target,
                     TargetVelocity |-> tv, MaxTime |-> mt, Step |-> st,
                     AimDirection |-> ZeroVector,
                     PredictedTargetLocation |-> ZeroVector,
                     PredictedIntersectionLocation |-> ZeroVector,
                     PredictedFlightTime |-> 0, Error |-> 0,
                     runs |-> 0, aims |-> << >>, errors |-> << >>]
    /\ UNCHANGED <<pc, call, inputs, outputs, locals, queries, steps, entry, first, traces,
                   frames, tool>>

(* Step 1. *)
SolverSeed ==
    /\ solver.pc = "seed"
    /\ LET t == SeedTime(solver.StartLocation, solver.TargetLocation,
                         NominalMuzzleSpeed(barrel, Bullet))
           predicted == PredictTarget(solver.TargetLocation, solver.TargetVelocity, t)
       IN  solver' = [solver EXCEPT
                         !.pc = "round",
                         !.PredictedFlightTime = t,
                         !.PredictedTargetLocation = predicted,
                         !.AimDirection = RefineAim(solver.StartLocation, predicted,
                                                    solver.StartLocation)]
    /\ UNCHANGED <<pc, call, inputs, outputs, locals, queries, steps, entry, first, traces,
                   frames, tool>>

(* Step 2: one refinement round.  errors records the distance between the  *)
(* round's intersection and the target predicted before it, which is the   *)
(* error a solver with one round less returns.                             *)
SolverRound ==
    /\ solver.pc = "round"
    /\ RoundsLeft(solver.round, solver.NumIterations)
    /\ LET run == SolverPredict(solver, barrel, BulletClass, World)
           t == run.HitTime
           predicted == PredictTarget(solver.TargetLocation, solver.TargetVelocity, t)
           aim == RefineAim(solver.StartLocation, predicted, run.HitLocation)
       IN  solver' = [solver EXCEPT
                         !.round = solver.round + 1,
                         !.runs = solver.runs + 1,
                         !.PredictedFlightTime = t,
                         !.PredictedTargetLocation = predicted,
                         !.AimDirection = aim,
                         !.aims = Append(solver.aims, aim),
                         !.errors = Append(solver.errors,
                                           DistSquared(run.HitLocation,
                                                       solver.PredictedTargetLocation))]
    /\ UNCHANGED <<pc, call, inputs, outputs, locals, queries, steps, entry, first, traces,
                   frames, tool>>

(* Steps 3 and 4: the last integration, the error, and the return. *)
SolverFinal ==
    /\ solver.pc = "round"
    /\ ~RoundsLeft(solver.round, solver.NumIterations)
    /\ LET run == SolverPredict(solver, barrel, BulletClass, World)
       IN  solver' = [solver EXCEPT
                         !.pc = "done",
                         !.runs = solver.runs + 1,
                         !.PredictedIntersectionLocation = run.HitLocation,
                         !.Error = DistSquared(run.HitLocation,
                                               solver.PredictedTargetLocation)]
    /\ UNCHANGED <<pc, call, inputs, outputs, locals, queries, steps, entry, first, traces,
                   frames, tool>>

SolverNext ==
    \/ SolverCall
    \/ SolverSeed
    \/ SolverRound
    \/ SolverFinal

SolverSpec == SolverInit /\ [][SolverNext]_vars

(* C11: with a target at rest the aim direction after the first round is   *)
(* the normalized straight line from start to target, no later round       *)
(* changes it, and with two rounds or more the error never grows from one  *)
(* round to the next.                                                      *)
C11_StaticTargetAim ==
    (solver.pc \in {"round", "done"} /\ solver.TargetVelocity = ZeroVector)
        => LET line == << Sign(solver.TargetLocation[1] - solver.StartLocation[1]),
                          Sign(solver.TargetLocation[2] - solver.StartLocation[2]),
                          Sign(solver.TargetLocation[3] - solver.StartLocation[3]) >>
               errs == IF solver.pc = "done"
                       THEN Append(solver.errors, solver.Error)
                       ELSE solver.errors
           IN  /\ \A k \in 1..Len(solver.aims) : solver.aims[k] = line
               /\ (solver.round >= 1 => solver.AimDirection = line)
               /\ (solver.NumIterations >= 2
                     => \A k \in 1..(Len(errs) - 1) : errs[k + 1] <= errs[k])

C11_Witness ==
    /\ solver.pc = "done"
    /\ solver.TargetVelocity = ZeroVector
    /\ solver.NumIterations = 4
    /\ Len(solver.aims) = 4
    /\ solver.AimDirection = <<-1, 0, 0>>
    /\ solver.Error > 0

(* C12: the solver performs exactly NumIterations rounds, each with one    *)
(* run of the integrator, then one last run, and returns: NumIterations    *)
(* + 1 runs in all, whatever the error does.  Every step after the seed    *)
(* is a run of the integrator that either completes a round of the budget  *)
(* or returns, so the budget bounds the length of the call.                *)
C12_FixedBudget ==
    /\ [](solver.pc # "idle"
            => /\ solver.round <= solver.NumIterations
               /\ solver.runs <= solver.NumIterations + 1
               /\ (solver.pc = "round" => solver.runs = solver.round)
               /\ (solver.pc = "done"
                     => /\ solver.round = solver.NumIterations
                        /\ solver.runs = solver.NumIterations + 1))
    /\ [][solver.pc = "round"
            => /\ solver'.runs = solver.runs + 1
               /\ \/ solver'.pc = "round" /\ solver'.round = solver.round + 1
                  \/ solver'.pc = "done" /\ solver'.round = solver.round]_vars

C12_Witness ==
    /\ solver.pc = "done"
    /\ solver.NumIterations = 4
    /\ solver.runs = 5
    /\ solver.TargetVelocity # ZeroVector
    /\ solver.errors[4] > solver.errors[3]

(***************************************************************************)
(* The attribute editor tool, UAttributeEditorTool, on its target mesh.    *)
(* A mesh is the names registered in four of its attribute sets and the    *)
(* number of its UV channels; element values are left out.  "Position" is  *)
(* a reserved vertex attribute, "w" a user attribute.                      *)
(***************************************************************************)
MaxUV == 2

MaxRequests == 2

NoAction == "NoAction"

NormalsActionNames == {"ClearNormals"}

UVActionNames == {"ClearAllUVs", "AddUVSet", "DeleteSelectedUVSet", "DuplicateSelectedUVSet"}

AttributeActionNames ==
    {"AddAttribute", "AddWeightMapLayer", "AddPolyGroupLayer", "DeleteAttribute"}

LightmapActionNames == {"EnableLightmapUVs", "DisableLightmapUVs", "ResetLightmapUVChannels"}

ElementTypes == {"Vertex", "Polygon", "Triangle", "PolygonGroup"}

NameNone == ""

UserNames == {"w"}

ReservedNames == {"Position"}

(* The order in which an attribute set hands out its names. *)
NameOrder == <<"Position", "w">>

IsReservedAttributeName(name) == name \in ReservedNames

MeshOf(vertex, polygon, triangle, group, uvs) ==
    [Vertex |-> vertex \cup ReservedNames, Polygon |-> polygon, Triangle |-> triangle,
     PolygonGroup |-> group, NumUVs |-> uvs]

GetAttributeSetByType(mesh, elemType) == mesh[elemType]

HasAttribute(mesh, elemType, name) == name \in GetAttributeSetByType(mesh, elemType)

(* AddAttribute: the data types of the switch register, any other fails. *)
AddAttribute(mesh, elemType, dataType, name) ==
    IF dataType \in {"Int32", "Boolean", "Float", "Vector2", "Vector3", "Vector4"}
    THEN [ok |-> TRUE, mesh |-> [mesh EXCEPT ![elemType] = @ \cup {name}]]
    ELSE [ok |-> FALSE, mesh |-> mesh]

RemoveAttribute(mesh, elemType, name) ==
    [ok |-> TRUE, mesh |-> [mesh EXCEPT ![elemType] = @ \ {name}]]

(* The lines of DeleteAttribute that choose the element type to remove     *)
(* from: found is the set the name was found in, elemType the one handed   *)
(* to RemoveAttribute.                                                     *)
DeleteTarget(mesh, name) ==
    IF HasAttribute(mesh, "Vertex", name)
    THEN [deletable |-> TRUE, found |-> "Vertex", elemType |-> "Vertex"]
    ELSE IF HasAttribute(mesh, "PolygonGroup", name)
         THEN [deletable |-> TRUE, found |-> "PolygonGroup", elemType |-> "Polygon"]
         ELSE IF HasAttribute(mesh, "Triangle", name)
              THEN [deletable |-> TRUE, found |-> "Triangle", elemType |-> "Triangle"]
              ELSE [deletable |-> FALSE, found |-> "none", elemType |-> "Vertex"]

(* ExtractAttribList without the reserved names, as lines 345-356 add them. *)
Unfiltered_ListedNames(set) == SelectSeq(NameOrder, LAMBDA n : n \in set)

ListedNames(set) == SelectSeq(NameOrder, LAMBDA n : n \in set /\ ~IsReservedAttributeName(n))

Contains(seq, x) == \E k \in 1..Len(seq) : seq[k] = x

NoDelete == [name |-> NameNone]

(* The new-attribute property set as a handler that reads none of it      *)
(* finds it.                                                               *)
NoProps == [NewName |-> NameNone, ElementType |-> "Vertex", DataType |-> "Unknown"]


Logged(t, events) == [t EXCEPT !.log = @ \o events]

(* InitializeAttributeLists, lines 295-374. *)
InitializeAttributeLists(t) ==
    LET uvs == [k \in 1..t.Mesh.NumUVs |-> k - 1]
        old == t.AttributeNamesList
        names == ListedNames(t.Mesh.Vertex) \o ListedNames(t.Mesh.Polygon)
                    \o ListedNames(t.Mesh.Triangle)
        kept == IF Contains(names, t.Attribute) THEN t.Attribute ELSE NameNone
        fresh == SelectSeq(names, LAMBDA n : ~Contains(old, n))
    IN  [t EXCEPT !.UVLayerNamesList = uvs,
                  !.UVLayer = uvs[1],
                  !.bHaveAutoGeneratedLightmapUVSet =
                      IF t.bTargetIsStaticMesh THEN t.DstLightmapIndex >= t.Mesh.NumUVs ELSE @,
                  !.AttributeNamesList = names,
                  !.Attribute = IF fresh # << >> THEN fresh[1] ELSE kept,
                  !.bAttributeListsValid = TRUE]

(* Setup, lines 80-128: the lists are built only for a single target. *)
Setup(targets, mesh, static, generate, dst) ==
    LET t == [pc |-> "ready", NumTargets |-> targets, PendingAction |-> NoAction,
              bAttributeListsValid |-> FALSE, Mesh |-> mesh,
              UVLayerNamesList |-> << >>, UVLayer |-> 0,
              Attribute |-> NameNone, AttributeNamesList |-> << >>,
              bTargetIsStaticMesh |-> (targets = 1 /\ static),
              bGenerateLightmapUVs |-> generate, DstLightmapIndex |-> dst,
              bHaveAutoGeneratedLightmapUVSet |-> FALSE,
              requests |-> 0, firstRequest |-> NoAction, droppedOther |-> FALSE,
              ran |-> << >>, log |-> << >>, deleted |-> NoDelete, props |-> NoProps,
              event |-> "setup"]
    IN  IF targets = 1 THEN InitializeAttributeLists(t) ELSE t

(* UpdateAutoGeneratedLightmapUVChannel after a commit, when the tool has  *)
(* an auto-generated lightmap set.  The channel count is read through      *)
(* InstanceUVs after EditedMesh was moved from: read is the value that     *)
(* read yields.                                                            *)
UpdateAutoGeneratedLightmapUVChannel(t, read) ==
    IF t.bHaveAutoGeneratedLightmapUVSet /\ t.bTargetIsStaticMesh
    THEN [t EXCEPT !.DstLightmapIndex = read]
    ELSE t

(* ClearNormals, lines 447-469: one commit per target, no change emitted. *)
ClearNormals(t) ==
    Logged(t, <<"begin">> \o [k \in 1..t.NumTargets |-> "commit"] \o <<"end">>)

(* ClearUVs, lines 474-510: every channel but the last is removed. *)
ClearUVs(t, read) ==
    LET t1 == Logged([t EXCEPT !.Mesh.NumUVs = 1], <<"begin", "commit">>)
        t2 == UpdateAutoGeneratedLightmapUVChannel(t1, read)
    IN  [Logged(t2, <<"emit", "end">>) EXCEPT !.bAttributeListsValid = FALSE]

(* FStaticMeshOperations::RemoveUVChannel fails on the only channel and on *)
(* an index the mesh does not have.                                        *)
RemoveUVChannel(mesh, index) ==
    IF mesh.NumUVs > 1 /\ index < mesh.NumUVs
    THEN [mesh EXCEPT !.NumUVs = @ - 1]
    ELSE mesh

(* FStaticMeshOperations::AddUVChannel fails on a mesh with all channels. *)
AddUVChannel(mesh) ==
    IF mesh.NumUVs < MaxUV
    THEN [ok |-> TRUE, mesh |-> [mesh EXCEPT !.NumUVs = @ + 1]]
    ELSE [ok |-> FALSE, mesh |-> mesh]

(* DeleteSelectedUVSet, lines 515-557. *)
DeleteSelectedUVSet(t, read) ==
    IF ~Contains(t.UVLayerNamesList, t.UVLayer)
    THEN t
    ELSE LET t1 == Logged([t EXCEPT !.Mesh = RemoveUVChannel(t.Mesh, t.UVLayer)],
                          <<"begin", "commit">>)
             t2 == UpdateAutoGeneratedLightmapUVChannel(t1, read)
         IN  [Logged(t2, <<"emit", "end">>) EXCEPT !.bAttributeListsValid = FALSE]

(* The loop body shared by AddUVSet (lines 563-584) and                    *)
(* DuplicateSelectedUVSet (lines 605-635): commit only when a channel was  *)
(* added.                                                                  *)
AddChannelAndCommit(t, read) ==
    LET added == AddUVChannel(t.Mesh)
    IN  IF added.ok
        THEN UpdateAutoGeneratedLightmapUVChannel(
                 Logged([t EXCEPT !.Mesh = added.mesh], <<"commit">>), read)
        ELSE t

(* AddUVSet, lines 560-591. *)
AddUVSet(t, read) ==
    LET t1 == AddChannelAndCommit(Logged(t, <<"begin">>), read)
    IN  [Logged(t1, <<"emit", "end">>) EXCEPT !.bAttributeListsValid = FALSE]

(* DuplicateSelectedUVSet, lines 595-642. *)
DuplicateSelectedUVSet(t, read) ==
    IF ~Contains(t.UVLayerNamesList, t.UVLayer)
    THEN t
    ELSE LET t1 == AddChannelAndCommit(Logged(t, <<"begin">>), read)
         IN  [Logged(t1, <<"emit", "end">>) EXCEPT !.bAttributeListsValid = FALSE]

(* AddNewAttribute(ElemType, DataType, AttributeName), lines 648-678. *)
BeginFirst_AddNewAttribute(t, elemType, dataType, name) ==
    LET added == AddAttribute(t.Mesh, elemType, dataType, name)
    IN  IF name = NameNone \/ HasAttribute(t.Mesh, elemType, name) \/ ~added.ok
        THEN Logged(t, <<"begin">>)
        ELSE [Logged([t EXCEPT !.Mesh = added.mesh], <<"begin", "commit", "emit", "end">>)
                 EXCEPT !.bAttributeListsValid = FALSE]

AddNewAttribute(t, elemType, dataType, name) ==
    LET added == AddAttribute(t.Mesh, elemType, dataType, name)
    IN  IF name = NameNone \/ HasAttribute(t.Mesh, elemType, name) \/ ~added.ok
        THEN t
        ELSE [Logged([t EXCEPT !.Mesh = added.mesh], <<"begin", "commit", "emit", "end">>)
                 EXCEPT !.bAttributeListsValid = FALSE]

(* AddNewAttribute(), lines 681-690. *)
AddNewAttributeFromProps(t, props) ==
    IF props.DataType = "Unknown"
    THEN t
    ELSE AddNewAttribute(t, props.ElementType, props.DataType, props.NewName)

(* AddNewWeightMap, lines 692-695. *)
AddNewWeightMap(t, props) == AddNewAttribute(t, "Vertex", "Float", props.NewName)

(* AddNewGroupsLayer, lines 697-700. *)
AddNewGroupsLayer(t, props) == AddNewAttribute(t, "Triangle", "Int32", props.NewName)

(* DeleteAttribute, lines 707-759. *)
DeleteAttribute(t) ==
    LET name == t.Attribute
        target == DeleteTarget(t.Mesh, name)
        removed == RemoveAttribute(t.Mesh, target.elemType, name)
    IN  IF IsReservedAttributeName(name) \/ ~target.deletable \/ ~removed.ok
        THEN t
        ELSE [Logged([t EXCEPT !.Mesh = removed.mesh], <<"begin", "commit", "emit", "end">>)
                 EXCEPT !.bAttributeListsValid = FALSE,
                        !.deleted = [name |-> name, found |-> target.found,
                                     before |-> t.Mesh, after |-> removed.mesh]]

(* SetLightmapUVsEnabled, lines 763-793. *)
SetLightmapUVsEnabled(t, enabled) ==
    LET t1 == IF t.bTargetIsStaticMesh THEN [t EXCEPT !.bGenerateLightmapUVs = enabled] ELSE t
    IN  [Logged(t1, <<"begin", "emit", "end">>) EXCEPT !.bAttributeListsValid = FALSE]

(* ResetLightmapUVsChannels, lines 797-825. *)
ResetLightmapUVsChannels(t) ==
    LET channel == IF t.Mesh.NumUVs > 1 THEN t.Mesh.NumUVs ELSE 1
        t1 == IF t.bTargetIsStaticMesh THEN [t EXCEPT !.DstLightmapIndex = channel] ELSE t
    IN  [Logged(t1, <<"begin", "emit", "end">>) EXCEPT !.bAttributeListsValid = FALSE]

(* RequestAction, lines 383-389: the slot takes the action when empty. *)
Overwriting_RequestAction(pending, action) == action

RequestAction(pending, action) == IF pending = NoAction THEN action ELSE pending

(* PendingAction = EAttributeEditorToolActions::NoAction, line 434. *)
ResetPending(pending) == NoAction

(* The switch of OnTick, lines 394-433. *)
ExecutePending(t, props, read) ==
    LET a == t.PendingAction
        r == [t EXCEPT !.ran = Append(@, a)]
    IN  CASE a = "ClearNormals" -> ClearNormals(r)
          [] a = "ClearAllUVs" -> ClearUVs(r, read)
          [] a = "AddUVSet" -> AddUVSet(r, read)
          [] a = "DeleteSelectedUVSet" -> DeleteSelectedUVSet(r, read)
          [] a = "DuplicateSelectedUVSet" -> DuplicateSelectedUVSet(r, read)
          [] a = "AddAttribute" -> AddNewAttributeFromProps(r, props)
          [] a = "AddWeightMapLayer" -> AddNewWeightMap(r, props)
          [] a = "AddPolyGroupLayer" -> AddNewGroupsLayer(r, props)
          [] a = "DeleteAttribute" -> DeleteAttribute(r)
          [] a = "EnableLightmapUVs" -> SetLightmapUVsEnabled(r, TRUE)
          [] a = "DisableLightmapUVs" -> SetLightmapUVsEnabled(r, FALSE)
          [] a = "ResetLightmapUVChannels" -> ResetLightmapUVsChannels(r)
          [] OTHER -> t

(* OnTick, lines 392-440. *)
OnTick(t, props, read) ==
    LET t1 == ExecutePending(t, props, read)
        t2 == [t1 EXCEPT !.PendingAction = ResetPending(@)]
    IN  IF t2.bAttributeListsValid = FALSE /\ t2.NumTargets = 1
        THEN InitializeAttributeLists(t2)
        ELSE t2

(* The buttons the tool shows: the property sets Setup created. *)
Requestable(t) ==
    NormalsActionNames
        \cup (IF t.NumTargets = 1 THEN UVActionNames \cup AttributeActionNames ELSE {})
        \cup (IF t.bTargetIsStaticMesh THEN LightmapActionNames ELSE {})

NewAttributeProps ==
    [NewName : {NameNone} \cup UserNames, ElementType : ElementTypes,
     DataType : {"Float", "Unknown"}]

(* ran, log and deleted tell what the handler that ran last did: the       *)
(* actions it executed, its undo transaction calls and commits, and the    *)
(* commit of a DeleteAttribute; props is the new-attribute property set    *)
(* it read.  They start afresh with every handler; event names the        *)
(* handler.                                                                *)
Untraced(t) ==
    [t EXCEPT !.ran = << >>, !.log = << >>, !.deleted = NoDelete, !.props = NoProps]

(* The meshes a tool is started on; undo and redo put one of them back. *)
ToolMeshes == {MeshOf({}, {}, {}, {}, 1), MeshOf({}, {"w"}, {}, {"w"}, 2)}

(* The inputs a tick can read: the property set of the new attribute for   *)
(* AddAttribute, its NewName for the other two adding actions, and the     *)
(* channel count read after a commit for a tool with an auto-generated     *)
(* lightmap set.                                                           *)
TickProps(t) ==
    IF t.PendingAction = "AddAttribute"
    THEN NewAttributeProps
    ELSE IF t.PendingAction \in {"AddWeightMapLayer", "AddPolyGroupLayer"}
         THEN {[NoProps EXCEPT !.NewName = n] : n \in {NameNone} \cup UserNames}
         ELSE {NoProps}

TickReads(t) ==
    IF t.bHaveAutoGeneratedLightmapUVSet /\ t.PendingAction \in UVActionNames
    THEN 0..MaxUV
    ELSE {0}


ToolInit ==
    /\ pc = "idle"
    /\ call = 1
    /\ BulletClass = [Valid |-> FALSE, CDO |-> ZeroDragProfile]
    /\ barrel = DefaultBarrel
    /\ World = EmptyWorld
    /\ StartLocation = ZeroVector
    /\ AimDirection = ZeroVector
    /\ IgnoredActors = {}
    /\ MaxTime = 0
    /\ Step = 0
    /\ Hit = FALSE
    /\ HitResult = NoHitResult
    /\ HitLocation = ZeroVector
    /\ HitTime = 0
    /\ HitActor = None
    /\ Trajectory = << >>
    /\ Time = 0
    /\ CurrentLocation = ZeroVector
    /\ Velocity = ZeroVector
    /\ queries = 0
    /\ steps = 0
    /\ entry = DefaultOutputs
    /\ first = DefaultOutputs
    /\ traces = << >>
    /\ solver = IdleSolver
    /\ frames = IdleFrames
    /\ \E targets \in {1, 2}, static \in BOOLEAN, generate \in BOOLEAN, dst \in {1, MaxUV},
          mesh \in ToolMeshes :
          /\ (targets = 1 /\ static) \/ (~generate /\ dst = 1)
          /\ tool = Setup(targets, mesh, static, generate, dst)

(* A button of a property set posts its action, lines 44-50. *)
ToolRequest ==
    /\ tool.requests < MaxRequests
    /\ \E a \in Requestable(tool) :
          tool' = [Untraced(tool) EXCEPT
                      !.event = "request",
                      !.PendingAction = RequestAction(@, a),
                      !.requests = @ + 1,
                      !.firstRequest = IF tool.requests = 0 THEN a ELSE @,
                      !.droppedOther = @ \/ (tool.requests > 0 /\ a # tool.firstRequest)]
    /\ UNCHANGED <<pc, call, inputs, outputs, locals, queries, steps, entry, first, traces,
                   solver, frames>>

(* The tool manager ticks the tool. *)
ToolTick ==
    /\ \E props \in TickProps(tool), read \in TickReads(tool) :
          tool' = OnTick([Untraced(tool) EXCEPT !.requests = 0, !.firstRequest = NoAction,
                                                !.droppedOther = FALSE,
                                                !.props = props, !.event = "tick"],
                         props, read)
    /\ UNCHANGED <<pc, call, inputs, outputs, locals, queries, steps, entry, first, traces,
                   solver, frames>>

(* The user picks an attribute name; the property is a string.  Edits and  *)
(* undo are taken before the requests of a frame: RequestAction writes     *)
(* PendingAction only, so the order among them makes no difference.        *)
ToolSelectAttribute ==
    /\ tool.NumTargets = 1
    /\ tool.requests = 0
    /\ \E n \in {NameNone} \cup UserNames \cup ReservedNames :
          tool' = [Untraced(tool) EXCEPT !.Attribute = n, !.event = "select"]
    /\ UNCHANGED <<pc, call, inputs, outputs, locals, queries, steps, entry, first, traces,
                   solver, frames>>

(* The user picks a UV layer; the property is a string. *)
ToolSelectUVLayer ==
    /\ tool.NumTargets = 1
    /\ tool.requests = 0
    /\ \E k \in 0..(MaxUV - 1) :
          tool' = [Untraced(tool) EXCEPT !.UVLayer = k, !.event = "select"]
    /\ UNCHANGED <<pc, call, inputs, outputs, locals, queries, steps, entry, first, traces,
                   solver, frames>>

(* Undo or redo: FAttributeEditor_AttributeListsChange::Apply and Revert,  *)
(* lines 848-859, while the target's own change record puts back a mesh.   *)
ToolUndoRedo ==
    /\ tool.NumTargets = 1
    /\ tool.requests = 0
    /\ \E m \in ToolMeshes :
          tool' = [Untraced(tool) EXCEPT !.Mesh = m, !.bAttributeListsValid = FALSE,
                                        !.event = "undo"]
    /\ UNCHANGED <<pc, call, inputs, outputs, locals, queries, steps, entry, first, traces,
                   solver, frames>>

ToolNext ==
    \/ ToolRequest
    \/ ToolTick
    \/ ToolSelectAttribute
    \/ ToolSelectUVLayer
    \/ ToolUndoRedo

ToolSpec == ToolInit /\ [][ToolNext]_vars

(* C19: the slot holds the first action requested since the last tick and  *)
(* later requests are dropped; a tick executes that action once, nothing   *)
(* when none was requested, and leaves the slot at NoAction, so a tick     *)
(* without a new request executes nothing.                                 *)
C19_OnePendingAction ==
    /\ [](tool.pc = "ready"
            => /\ tool.PendingAction = tool.firstRequest
               /\ (tool.requests = 0 => tool.PendingAction = NoAction)
               /\ Len(tool.ran) <= 1)
    /\ [][(tool.requests > 0 /\ tool'.requests = 0)
            => /\ tool'.ran = <<tool.firstRequest>>
               /\ tool'.PendingAction = NoAction]_vars
    /\ [][tool.requests = 0 => tool'.ran = << >>]_vars

C19_Witness ==
    /\ tool.pc = "ready"
    /\ tool.requests = 2
    /\ tool.droppedOther
    /\ tool.firstRequest = "AddUVSet"
    /\ tool.PendingAction = "AddUVSet"

(* C20 as claimed: a DeleteAttribute that commits has removed the selected *)
(* name from the element set it was found in and has left every other      *)
(* element set as it was.                                                  *)
C20_DeleteRemovesWhereFound ==
    (tool.pc = "ready" /\ tool.deleted # NoDelete)
        => /\ tool.deleted.name \notin tool.deleted.after[tool.deleted.found]
           /\ \A e \in ElementTypes \ {tool.deleted.found} :
                 tool.deleted.after[e] = tool.deleted.before[e]

(* A handler's log with at most one transaction: empty, or one begin, then *)
(* commits and emitted changes, then one end.                              *)
OneTransaction(log) ==
    \/ log = << >>
    \/ /\ Len(log) >= 2
       /\ log[1] = "begin"
       /\ log[Len(log)] = "end"
       /\ \A k \in 2..(Len(log) - 1) : log[k] \in {"commit", "emit"}

(* The element type and name an adding action hands to AddNewAttribute. *)
AddedElementType(action, props) ==
    IF action = "AddWeightMapLayer" THEN "Vertex"
    ELSE IF action = "AddPolyGroupLayer" THEN "Triangle"
    ELSE props.ElementType

(* C21: whatever a handler did, its undo transaction calls are none, or    *)
(* one begin followed by one end with every commit in between; and a tick  *)
(* whose action takes an error path (UV layer not found, name none or      *)
(* duplicate, unknown data type, reserved or undeletable attribute) begins *)
(* no transaction and commits nothing.                                     *)
C21_TransactionsBalanced ==
    /\ [](tool.pc = "ready" => OneTransaction(tool.log))
    /\ [][(tool.pc = "ready" /\ tool'.ran # << >>)
            => LET a == tool'.ran[1]
                   p == tool'.props
                   errorPath ==
                      \/ /\ a \in {"DeleteSelectedUVSet", "DuplicateSelectedUVSet"}
                         /\ \A k \in 1..Len(tool.UVLayerNamesList) :
                               tool.UVLayerNamesList[k] # tool.UVLayer
                      \/ /\ a \in {"AddAttribute", "AddWeightMapLayer", "AddPolyGroupLayer"}
                         /\ \/ p.NewName = NameNone
                            \/ p.NewName \in tool.Mesh[AddedElementType(a, p)]
                            \/ a = "AddAttribute" /\ p.DataType = "Unknown"
                      \/ /\ a = "DeleteAttribute"
                         /\ \/ tool.Attribute \in ReservedNames
                            \/ tool.Attribute \notin
                                  (tool.Mesh.Vertex \cup tool.Mesh.PolygonGroup
                                      \cup tool.Mesh.Triangle)
               IN  /\ errorPath => (tool'.log = << >> /\ tool'.Mesh = tool.Mesh)
                   /\ ~errorPath => (tool'.log # << >> /\ tool'.log[1] = "begin") ]_vars

C21_Witness ==
    /\ tool.pc = "ready"
    /\ tool.ran = <<"AddAttribute">>
    /\ tool.props.NewName = "w"
    /\ tool.props.ElementType = "PolygonGroup"
    /\ tool.props.DataType = "Float"
    /\ "w" \in tool.Mesh.PolygonGroup
    /\ tool.log = << >>

(* C22: with one target every OnTick ends with valid attribute lists,      *)
(* also the one that follows an undo or redo, which leaves them invalid;   *)
(* and a tick that rebuilt the lists leaves a name list without reserved   *)
(* names, holding the names of the vertex, polygon and triangle sets of    *)
(* the mesh, and a selected attribute that is empty or in that list.       *)
C22_ListsValidAfterTick ==
    /\ []((tool.pc = "ready" /\ tool.event = "tick" /\ tool.NumTargets = 1)
             => tool.bAttributeListsValid)
    /\ []((tool.pc = "ready" /\ tool.event = "undo") => ~tool.bAttributeListsValid)
    /\ [][(tool.pc = "ready" /\ tool'.event = "tick" /\ tool.NumTargets = 1
             /\ (~tool.bAttributeListsValid
                   \/ \E k \in 1..Len(tool'.log) : tool'.log[k] = "emit"))
            => LET list == tool'.AttributeNamesList
                   listed == {list[k] : k \in 1..Len(list)}
               IN  /\ listed \cap ReservedNames = {}
                   /\ listed = (tool'.Mesh.Vertex \cup tool'.Mesh.Polygon
                                   \cup tool'.Mesh.Triangle) \ ReservedNames
                   /\ (tool'.Attribute = NameNone \/ tool'.Attribute \in listed) ]_vars

C22_Witness ==
    /\ tool.pc = "ready"
    /\ tool.NumTargets = 1
    /\ tool.event = "tick"
    /\ tool.bAttributeListsValid
    /\ tool.ran = <<"AddWeightMapLayer">>
    /\ tool.log = <<"begin", "commit", "emit", "end">>
    /\ tool.Attribute = "w"
    /\ tool.AttributeNamesList = <<"w">>
    /\ "Position" \in tool.Mesh.Vertex

====
